---- MODULE Spec2Model ----
(***************************************************************************)
(* Model of levenshtein_with_operations (src/levenshtein_explainer.py):    *)
(* the DP table construction, cell by cell, and the backtrace loop, one    *)
(* iteration per step, for one call made by main() on two input strings.   *)
(***************************************************************************)
EXTENDS Integers, Sequences, FiniteSets

VARIABLES str1, str2, dp, i, j, operations, ret, pc

vars == <<str1, str2, dp, i, j, operations, ret, pc>>

(* ---------------------------- inputs ----------------------------------- *)

MaxLen == 3

Alphabet == {"a", "b", "c"}

Seqs(k) == UNION {[1..l -> Alphabet] : l \in 0..k}

Kitten == <<"k", "i", "t", "t", "e", "n">>
Sitting == <<"s", "i", "t", "t", "i", "n", "g">>
Cat == <<"c", "a", "t">>
Cart == <<"c", "a", "r", "t">>
Abc == <<"a", "b", "c">>

Scenarios == {<<Kitten, Sitting>>, <<Cat, Cart>>, <<Abc, <<>>>>}

Inputs == (Seqs(MaxLen) \X Seqs(MaxLen)) \cup Scenarios

m == Len(str1)
n == Len(str2)

(* ---------------------------- helpers ---------------------------------- *)

min(x, y, z) == IF x <= y /\ x <= z THEN x ELSE IF y <= z THEN y ELSE z

\* dp = [[0] * (n + 1) for _ in range(m + 1)]
ZeroTable(rows, cols) == [r \in 0..rows |-> [c \in 0..cols |-> 0]]

BoundaryTable_short(rows, cols) ==
    [r \in 0..rows |-> [c \in 0..cols |->
        IF r = 0 THEN c ELSE IF c = 0 /\ r < rows THEN r ELSE 0]]

\* for i in range(m + 1): dp[i][0] = i ; for j in range(n + 1): dp[0][j] = j
BoundaryTable(rows, cols) ==
    [r \in 0..rows |-> [c \in 0..cols |->
        IF r = 0 THEN c ELSE IF c = 0 THEN r ELSE 0]]

CellValue_nosub(d, s1, s2, r, c) ==
    IF s1[r] = s2[c]
    THEN d[r - 1][c - 1]
    ELSE IF d[r - 1][c] <= d[r][c - 1] THEN d[r - 1][c] + 1 ELSE d[r][c - 1] + 1

CellValue_del2(d, s1, s2, r, c) ==
    IF s1[r] = s2[c]
    THEN d[r - 1][c - 1]
    ELSE min(d[r - 1][c] + 2, d[r][c - 1] + 1, d[r - 1][c - 1] + 1)

\* the body of the fill loop: the value stored in dp[r][c]
\* (str1[i - 1] of the 0-based source is s1[r] here, sequences being 1-based)
CellValue(d, s1, s2, r, c) ==
    IF s1[r] = s2[c]
    THEN d[r - 1][c - 1]
    ELSE min(d[r - 1][c] + 1, d[r][c - 1] + 1, d[r - 1][c - 1] + 1)

\* the nested fill loops run to completion on a table d, from cell (r, c) on
RECURSIVE FillFrom(_, _, _, _, _)
FillFrom(d, s1, s2, r, c) ==
    IF r > Len(s1) \/ Len(s2) = 0 THEN d
    ELSE LET d2 == [d EXCEPT ![r][c] = CellValue(d, s1, s2, r, c)]
         IN  IF c < Len(s2) THEN FillFrom(d2, s1, s2, r, c + 1)
                            ELSE FillFrom(d2, s1, s2, r + 1, 1)

\* the returned distance dp[m][n] of a whole call on (s1, s2)
Distance(s1, s2) ==
    FillFrom(BoundaryTable(Len(s1), Len(s2)), s1, s2, 1, 1)[Len(s1)][Len(s2)]

(* the emitted operation lines; the f-string is kept as its tag and fields *)

Substitute_0based(p, x, y) == <<"Substitute", p - 1, x, y>>

\* f"替换位置{i}的'{str1[i - 1]}'为'{str2[j - 1]}'"
Substitute(p, x, y) == <<"Substitute", p, x, y>>

Delete_0based(p, x) == <<"Delete", p - 1, x>>

\* f"删除位置{i}的'{str1[i - 1]}'"
Delete(p, x) == <<"Delete", p, x>>

Insert_at_i(ci, cj, y) == <<"Insert", ci, y>>

Insert_at_j(ci, cj, y) == <<"Insert", cj, y>>

\* f"在位置{i + 1}插入'{str2[j - 1]}'" at cursor (ci, cj)
Insert(ci, cj, y) == <<"Insert", ci + 1, y>>

RECURSIVE Reverse(_)
Reverse(s) == IF s = <<>> THEN <<>> ELSE Append(Reverse(Tail(s)), Head(s))

(* the conditions of the if / elif chain of the backtrace loop *)

IsMatch == i > 0 /\ j > 0 /\ str1[i] = str2[j]

IsSubstitute_nocost == i > 0 /\ j > 0

IsSubstitute == i > 0 /\ j > 0 /\ dp[i][j] = dp[i - 1][j - 1] + 1

IsDelete == i > 0 /\ dp[i][j] = dp[i - 1][j] + 1

IsInsert_noplus == j > 0 /\ dp[i][j] = dp[i][j - 1]

IsInsert == j > 0 /\ dp[i][j] = dp[i][j - 1] + 1

(* ---------------------------- the call --------------------------------- *)

Init ==
    /\ \E p \in Inputs : str1 = p[1] /\ str2 = p[2]
    /\ dp = ZeroTable(m, n)
    /\ i = 0
    /\ j = 0
    /\ operations = <<>>
    /\ ret = <<>>
    /\ pc = "boundary"

InitBoundary ==
    /\ pc = "boundary"
    /\ dp' = BoundaryTable(m, n)
    /\ i' = 1
    /\ j' = 1
    /\ pc' = "fill"
    /\ UNCHANGED <<str1, str2, operations, ret>>

FillCell ==
    /\ pc = "fill"
    /\ i <= m
    /\ n >= 1
    /\ dp' = [dp EXCEPT ![i][j] = CellValue(dp, str1, str2, i, j)]
    /\ IF j < n THEN i' = i /\ j' = j + 1
                ELSE i' = i + 1 /\ j' = 1
    /\ UNCHANGED <<str1, str2, operations, ret, pc>>

StartBacktrace ==
    /\ pc = "fill"
    /\ (i > m \/ n = 0)
    /\ operations' = <<>>
    /\ i' = m
    /\ j' = n
    /\ pc' = "backtrace"
    /\ UNCHANGED <<str1, str2, dp, ret>>

MatchStep ==
    /\ pc = "backtrace"
    /\ (i > 0 \/ j > 0)
    /\ IsMatch
    /\ i' = i - 1
    /\ j' = j - 1
    /\ UNCHANGED <<str1, str2, dp, operations, ret, pc>>

SubstituteStep ==
    /\ pc = "backtrace"
    /\ (i > 0 \/ j > 0)
    /\ ~IsMatch
    /\ IsSubstitute
    /\ operations' = Append(operations, Substitute(i, str1[i], str2[j]))
    /\ i' = i - 1
    /\ j' = j - 1
    /\ UNCHANGED <<str1, str2, dp, ret, pc>>

DeleteStep ==
    /\ pc = "backtrace"
    /\ (i > 0 \/ j > 0)
    /\ ~IsMatch
    /\ ~IsSubstitute
    /\ IsDelete
    /\ operations' = Append(operations, Delete(i, str1[i]))
    /\ i' = i - 1
    /\ UNCHANGED <<str1, str2, dp, j, ret, pc>>

InsertStep ==
    /\ pc = "backtrace"
    /\ (i > 0 \/ j > 0)
    /\ ~IsMatch
    /\ ~IsSubstitute
    /\ ~IsDelete
    /\ IsInsert
    /\ operations' = Append(operations, Insert(i, j, str2[j]))
    /\ j' = j - 1
    /\ UNCHANGED <<str1, str2, dp, i, ret, pc>>

Return ==
    /\ pc = "backtrace"
    /\ ~(i > 0 \/ j > 0)
    /\ operations' = Reverse(operations)
    /\ ret' = <<dp[m][n], Reverse(operations)>>
    /\ pc' = "done"
    /\ UNCHANGED <<str1, str2, dp, i, j>>

Next ==
    \/ InitBoundary
    \/ FillCell
    \/ StartBacktrace
    \/ MatchStep
    \/ SubstituteStep
    \/ DeleteStep
    \/ InsertStep
    \/ Return

Spec == Init /\ [][Next]_vars

\* the call is synchronous and single-threaded: an enabled step is taken
FairSpec == Spec /\ WF_vars(Next)

(* ---------------------- reference definitions -------------------------- *)

\* the cheapest way to turn the first a elements of A into the first b of B,
\* every last step (delete, insert, keep-or-substitute) being tried
RECURSIVE Lev(_, _, _, _)
Lev(A, B, a, b) ==
    IF a = 0 THEN b
    ELSE IF b = 0 THEN a
    ELSE min(Lev(A, B, a - 1, b) + 1,
             Lev(A, B, a, b - 1) + 1,
             Lev(A, B, a - 1, b - 1) + (IF A[a] = B[b] THEN 0 ELSE 1))

IsEdit(op) == op[1] \in {"Substitute", "Delete"}

\* the elements inserted at position p, in script order
RECURSIVE InsertsAt(_, _)
InsertsAt(ops, p) ==
    IF ops = <<>> THEN <<>>
    ELSE (IF Head(ops)[1] = "Insert" /\ Head(ops)[2] = p
          THEN <<Head(ops)[3]>> ELSE <<>>) \o InsertsAt(Tail(ops), p)

\* what becomes of element p of the original A
ElemAt(A, ops, p) ==
    IF \E k \in 1..Len(ops) : ops[k][1] = "Delete" /\ ops[k][2] = p
    THEN <<>>
    ELSE IF \E k \in 1..Len(ops) : ops[k][1] = "Substitute" /\ ops[k][2] = p
    THEN <<ops[CHOOSE k \in 1..Len(ops) :
                 ops[k][1] = "Substitute" /\ ops[k][2] = p][4]>>
    ELSE <<A[p]>>

\* the script applied to A: the inserts with position p go directly after
\* the first p - 1 elements of the original A
RECURSIVE ApplyFrom(_, _, _)
ApplyFrom(A, ops, p) ==
    IF p > Len(A) + 1 THEN <<>>
    ELSE InsertsAt(ops, p)
         \o (IF p <= Len(A) THEN ElemAt(A, ops, p) ELSE <<>>)
         \o ApplyFrom(A, ops, p + 1)

Apply(A, ops) == ApplyFrom(A, ops, 1)

InRange(A, ops) ==
    \A k \in 1..Len(ops) :
        ops[k][2] \in 1..(Len(A) + (IF ops[k][1] = "Insert" THEN 1 ELSE 0))

Done == pc = "done"

TableComplete == pc \in {"backtrace", "done"}

(* ------------------------------ claims --------------------------------- *)

\* C1: the returned integer dp[len(A)][len(B)] is the Levenshtein distance
\* of A and B as given by the reference definition Lev.
C1_DistanceIsLevenshtein == Done => ret[1] = Lev(str1, str2, m, n)

C1_Witness ==
    /\ Done
    /\ m = MaxLen
    /\ n >= 2
    /\ ret[1] = 2
    /\ str1[1] # str2[1]

\* C2: the returned operations applied to A in their order, Delete and
\* Substitute positions read against the original A and each Insert(p, y)
\* placed directly after the first p - 1 elements of A, yield exactly B.
C2_ScriptYieldsB ==
    Done => InRange(str1, ret[2]) /\ Apply(str1, ret[2]) = str2

C2_Witness ==
    /\ Done
    /\ \E k \in 1..Len(ret[2]) : \E l \in 1..Len(ret[2]) :
          /\ k < l
          /\ ret[2][k][1] = "Insert"
          /\ ret[2][l][1] = "Insert"
          /\ ret[2][k][2] = ret[2][l][2]
    /\ \E k \in 1..Len(ret[2]) : IsEdit(ret[2][k])

\* C3: the number of returned operations equals the returned distance; along
\* the backtrace the operations emitted so far plus the table value under the
\* cursor always add up to dp[m][n].
C3_ScriptLengthIsDistance ==
    /\ pc = "backtrace" => Len(operations) + dp[i][j] = dp[m][n]
    /\ Done => Len(ret[2]) = ret[1]

C3_Witness ==
    /\ Done
    /\ Len(ret[2]) = 3
    /\ ret[1] = 3
    /\ m = 3
    /\ n = 3

InsertEmitted ==
    /\ pc = "backtrace"
    /\ Len(operations') = Len(operations) + 1
    /\ operations'[Len(operations')][1] = "Insert"

C8_Symmetry == Done => ret[1] = Distance(str2, str1)

C8_Witness == Done /\ m < n /\ m > 0 /\ ret[1] > n - m

BranchEnabled == IsMatch \/ IsSubstitute \/ IsDelete \/ IsInsert

\* C9: the backtrace started at (len(A), len(B)) reaches (0, 0) and returns:
\* at every cursor with i > 0 or j > 0 one of the four branches is enabled,
\* and every iteration strictly decreases i + j keeping i >= 0 and j >= 0.
C9_BacktraceTerminates ==
    /\ [](pc = "backtrace" /\ (i > 0 \/ j > 0) => BranchEnabled)
    /\ [][(pc = "backtrace" /\ pc' = "backtrace")
             => (i' + j' < i + j /\ i' >= 0 /\ j' >= 0)]_vars
    /\ <>(Done /\ i = 0 /\ j = 0)

C9_Witness == Done /\ i = 0 /\ j = 0 /\ m + n = 2 * MaxLen /\ ret[1] = 1

\* C10: in the completed table dp[i][0] = i and dp[0][j] = j, and every cell
\* with i >= 1 and j >= 1 is non-negative and within 1 of dp[i-1][j],
\* dp[i][j-1] and dp[i-1][j-1].
C10_TableShape ==
    TableComplete =>
        /\ \A r \in 0..m : dp[r][0] = r
        /\ \A c \in 0..n : dp[0][c] = c
        /\ \A r \in 1..m : \A c \in 1..n :
              /\ dp[r][c] >= 0
              /\ dp[r][c] - dp[r - 1][c] \in {-1, 0, 1}
              /\ dp[r][c] - dp[r][c - 1] \in {-1, 0, 1}
              /\ dp[r][c] - dp[r - 1][c - 1] \in {-1, 0, 1}

C10_Witness ==
    /\ pc = "backtrace"
    /\ m = MaxLen
    /\ n = MaxLen
    /\ \E r \in 1..m : \E c \in 1..n : dp[r][c] = dp[r - 1][c] - 1

====
